---- MODULE Spec2Model ----
(***************************************************************************)
(* A model of src/lib/yacc/grammar.rs: YaccGrammar::new, which lowers a    *)
(* validated GrammarAST into an indexed, augmented grammar.                *)
(*                                                                         *)
(* Representation.                                                         *)
(*   - A name (Rust String) is a sequence of one-character strings, so     *)
(*     that concatenation, to_lowercase and byte-wise comparison are       *)
(*     computed and not assumed.                                           *)
(*   - Option<T> is a sequence of length 0 (None) or 1 (Some(x)).          *)
(*   - NTIdx, TIdx and PIdx keep their 0-based values; a Vec is a TLA+     *)
(*     sequence, so Vec index i is sequence position i + 1.                *)
(*   - The iteration order of the AST's hash-based collections (rules,     *)
(*     tokens, implicit_tokens) is an input of every run of new.           *)
(***************************************************************************)
EXTENDS Integers, Sequences, FiniteSets, TLC

VARIABLES ast, yacc_kind, pc, grm, prev, res

vars == <<ast, yacc_kind, pc, grm, prev, res>>

----------------------------------------------------------------------------
(* Option<T> *)

None == <<>>

Some(x) == <<x>>

IsSome(o) == Len(o) = 1

Unwrap(o) == o[1]

----------------------------------------------------------------------------
(* Strings *)

START_NONTERM == <<"^">>

END_TERM == <<"$">>

IMPLICIT_NONTERM == <<"~">>

IMPLICIT_START_NONTERM == <<"^", "~">>

\* The byte value of a character (ASCII).
Code(c) ==
    CASE c = "$" -> 36
      [] c = "A" -> 65
      [] c = "B" -> 66
      [] c = "S" -> 83
      [] c = "T" -> 84
      [] c = "U" -> 85
      [] c = "^" -> 94
      [] c = "a" -> 97
      [] c = "b" -> 98
      [] c = "s" -> 115
      [] c = "t" -> 116
      [] c = "u" -> 117
      [] c = "~" -> 126

\* char::to_lowercase on the characters above.
LowerChar(c) ==
    CASE c = "A" -> "a"
      [] c = "B" -> "b"
      [] c = "S" -> "s"
      [] c = "T" -> "t"
      [] c = "U" -> "u"
      [] OTHER -> c

\* String::to_lowercase
ToLowercase(s) == [i \in 1..Len(s) |-> LowerChar(s[i])]

\* a.cmp(&b) == Ordering::Less on strings: byte-wise lexicographic order.
RECURSIVE StrLess(_, _)
StrLess(a, b) ==
    IF b = <<>> THEN FALSE
    ELSE IF a = <<>> THEN TRUE
    ELSE IF Code(a[1]) # Code(b[1]) THEN Code(a[1]) < Code(b[1])
    ELSE StrLess(Tail(a), Tail(b))

\* The comparator of line 152: a.to_lowercase().cmp(&b.to_lowercase()) is Less.
LowerLess(a, b) == StrLess(ToLowercase(a), ToLowercase(b))

\* Insert x behind every element that does not compare greater than it.
RECURSIVE SortInsert(_, _)
SortInsert(s, x) ==
    IF s = <<>> THEN <<x>>
    ELSE IF LowerLess(x, s[1]) THEN <<x>> \o s
    ELSE <<s[1]>> \o SortInsert(Tail(s), x)

\* Vec::sort_by with the comparator of line 152. sort_by is a stable sort:
\* elements that compare equal keep their relative order.
RECURSIVE SortByLowercase(_)
SortByLowercase(s) ==
    IF s = <<>> THEN <<>>
    ELSE SortInsert(SortByLowercase(SubSeq(s, 1, Len(s) - 1)), s[Len(s)])

\* Probe with an `if` where the loop should be: the candidate is lengthened
\* at most once.
Probe_Once(marker, cand, taken) ==
    IF cand \in taken THEN cand \o marker ELSE cand

\* The probe loops of lines 114-117, 129-132, 135-138 and 160-163: lengthen
\* the candidate by the marker while it is a taken name.
RECURSIVE Probe(_, _, _)
Probe(marker, cand, taken) ==
    IF cand \in taken THEN Probe(marker, cand \o marker, taken) ELSE cand

UniqueName(marker, taken) == Probe(marker, marker, taken)

----------------------------------------------------------------------------
(* Symbol tables *)

\* The elements of a sequence.
Range(s) == {s[i] : i \in 1..Len(s)}

\* The HashMap built by inserting (names[i], i) for i = 0, 1, ...: a later
\* insertion of the same key replaces the earlier one.
MapGet(names, n) ==
    CHOOSE i \in 0..(Len(names) - 1) :
        /\ names[i + 1] = n
        /\ \A j \in 0..(Len(names) - 1) : names[j + 1] = n => j <= i

\* iter().position(|x| x == n).unwrap()
Position(names, n) ==
    CHOOSE i \in 0..(Len(names) - 1) :
        /\ names[i + 1] = n
        /\ \A j \in 0..(Len(names) - 1) : names[j + 1] = n => i <= j

Nonterminal(i) == [tag |-> "Nonterminal", idx |-> i]

Terminal(i) == [tag |-> "Terminal", idx |-> i]

\* ast::Symbol
AstNonterminal(n) == [tag |-> "Nonterminal", name |-> n]

AstTerminal(n) == [tag |-> "Terminal", name |-> n]

\* ast::Production
AstProduction(syms, prec) == [symbols |-> syms, precedence |-> prec]

----------------------------------------------------------------------------
(* YaccGrammar::new *)

\* Did implicit tokens get switched on (lines 122-147)?
ImplicitEnabled(kind, a) == kind = "Eco" /\ IsSome(a.implicit_tokens)

\* NontermNames with the start nonterminal's name taken as the bare marker,
\* without the probe loop of lines 115-117.
NontermNames_NoProbe(kind, a, ruleKeys) ==
    LET n1 == UniqueName(IMPLICIT_NONTERM, DOMAIN a.rules)
        n2 == UniqueName(IMPLICIT_START_NONTERM, DOMAIN a.rules)
        on == ImplicitEnabled(kind, a)
    IN  [start_nonterm |-> START_NONTERM,
         implicit_nonterm |-> IF on THEN Some(n1) ELSE None,
         implicit_start_nonterm |-> IF on THEN Some(n2) ELSE None,
         nonterm_names |->
             SortByLowercase(<<START_NONTERM>>
                             \o (IF on THEN <<n1, n2>> ELSE <<>>)
                             \o ruleKeys)]

\* Lines 108-152: the synthetic names, the user's rule names in the order
\* ast.rules.keys() yields them, and the sort.
NontermNames(kind, a, ruleKeys) ==
    LET start_nonterm == UniqueName(START_NONTERM, DOMAIN a.rules)
        n1 == UniqueName(IMPLICIT_NONTERM, DOMAIN a.rules)
        n2 == UniqueName(IMPLICIT_START_NONTERM, DOMAIN a.rules)
        on == ImplicitEnabled(kind, a)
    IN  [start_nonterm |-> start_nonterm,
         implicit_nonterm |-> IF on THEN Some(n1) ELSE None,
         implicit_start_nonterm |-> IF on THEN Some(n2) ELSE None,
         nonterm_names |->
             SortByLowercase(<<start_nonterm>>
                             \o (IF on THEN <<n1, n2>> ELSE <<>>)
                             \o ruleKeys)]

\* TermTables with the end terminal pushed behind the tokens, not in front.
TermTables_EndLast(a, tokIter) ==
    LET end_term == UniqueName(END_TERM, a.tokens)
    IN  [end_term |-> end_term,
         term_names |-> tokIter \o <<end_term>>,
         term_precs |->
             [i \in 1..Len(tokIter) |->
                 IF tokIter[i] \in DOMAIN a.precs
                 THEN Some(a.precs[tokIter[i]]) ELSE None] \o <<None>>]

\* Lines 160-171: the end terminal first, then the tokens in the order
\* iterating ast.tokens yields them, each with ast.precs.get(k).
TermTables(a, tokIter) ==
    LET end_term == UniqueName(END_TERM, a.tokens)
    IN  [end_term |-> end_term,
         term_names |-> <<end_term>> \o tokIter,
         term_precs |->
             <<None>> \o [i \in 1..Len(tokIter) |->
                             IF tokIter[i] \in DOMAIN a.precs
                             THEN Some(a.precs[tokIter[i]]) ELSE None]]

\* The four tables the loop of lines 180-265 fills, and whether it panicked.
EmptyTables(nNonterms) ==
    [prods |-> <<>>, prod_precs |-> <<>>, prods_rules |-> <<>>,
     rules_prods |-> [i \in 1..nNonterms |-> <<>>], panicked |-> FALSE]

\* PushProd with the production's index read after prods.push(prod).
PushProd_IndexAfterPush(acc, rule_idx, prod, prec) ==
    [acc EXCEPT !.rules_prods[rule_idx + 1] = Append(@, Len(acc.prods) + 1),
                !.prods = Append(@, prod),
                !.prod_precs = Append(@, prec),
                !.prods_rules = Append(@, rule_idx)]

\* rules_prods[rule_idx].push(prods.len()); prods.push(prod);
\* prod_precs.push(prec); prods_rules.push(rule_idx)
PushProd(acc, rule_idx, prod, prec) ==
    [acc EXCEPT !.rules_prods[rule_idx + 1] = Append(@, Len(acc.prods)),
                !.prods = Append(@, prod),
                !.prod_precs = Append(@, prec),
                !.prods_rules = Append(@, rule_idx)]

\* LowerSymbols with the implicit nonterminal pushed behind every symbol,
\* nonterminals included.
RECURSIVE LowerSymbols_AfterAll(_, _, _, _)
LowerSymbols_AfterAll(symbols, nonterm_names, term_names, implicit_nonterm) ==
    IF symbols = <<>> THEN <<>>
    ELSE LET astsym == symbols[1]
         IN  <<IF astsym.tag = "Nonterminal"
               THEN [tag |-> "Nonterminal",
                     idx |-> MapGet(nonterm_names, astsym.name)]
               ELSE [tag |-> "Terminal",
                     idx |-> MapGet(term_names, astsym.name)]>>
             \o (IF IsSome(implicit_nonterm)
                 THEN <<[tag |-> "Nonterminal",
                         idx |-> MapGet(nonterm_names,
                                        Unwrap(implicit_nonterm))]>>
                 ELSE <<>>)
             \o LowerSymbols_AfterAll(Tail(symbols), nonterm_names, term_names,
                                      implicit_nonterm)

\* Lines 233-246: resolve every symbol, and push a reference to the implicit
\* nonterminal behind every terminal when there is one.
RECURSIVE LowerSymbols(_, _, _, _)
LowerSymbols(symbols, nonterm_names, term_names, implicit_nonterm) ==
    IF symbols = <<>> THEN <<>>
    ELSE LET astsym == symbols[1]
             rest == LowerSymbols(Tail(symbols), nonterm_names, term_names,
                                  implicit_nonterm)
         IN  IF astsym.tag = "Nonterminal"
             THEN <<Nonterminal(MapGet(nonterm_names, astsym.name))>> \o rest
             ELSE <<Terminal(MapGet(term_names, astsym.name))>>
                  \o (IF IsSome(implicit_nonterm)
                      THEN <<Nonterminal(MapGet(nonterm_names,
                                                Unwrap(implicit_nonterm)))>>
                      ELSE <<>>)
                  \o rest

\* RightmostTerminalPrec without the break of line 256: a terminal without a
\* declared precedence is skipped and the scan goes on to its left.
RECURSIVE RightmostTerminalPrec_NoBreak(_, _)
RightmostTerminalPrec_NoBreak(symbols, precs) ==
    IF symbols = <<>> THEN None
    ELSE LET astsym == symbols[Len(symbols)]
         IN  IF astsym.tag = "Terminal" /\ astsym.name \in DOMAIN precs
             THEN Some(precs[astsym.name])
             ELSE RightmostTerminalPrec_NoBreak(
                      SubSeq(symbols, 1, Len(symbols) - 1), precs)

\* Lines 251-258: walk the AST symbols from the right; the first terminal
\* met decides, whether or not it has a precedence.
RECURSIVE RightmostTerminalPrec(_, _)
RightmostTerminalPrec(symbols, precs) ==
    IF symbols = <<>> THEN None
    ELSE LET astsym == symbols[Len(symbols)]
         IN  IF astsym.tag = "Terminal"
             THEN IF astsym.name \in DOMAIN precs
                  THEN Some(precs[astsym.name]) ELSE None
             ELSE RightmostTerminalPrec(SubSeq(symbols, 1, Len(symbols) - 1),
                                        precs)

\* ProdPrec with the two branches in the wrong order: the rightmost terminal
\* decides when it has a precedence, and the override only otherwise.
ProdPrec_DefaultFirst(astprod, precs) ==
    IF IsSome(RightmostTerminalPrec(astprod.symbols, precs))
    THEN [prec |-> RightmostTerminalPrec(astprod.symbols, precs),
          panicked |-> FALSE]
    ELSE IF IsSome(astprod.precedence)
    THEN IF Unwrap(astprod.precedence) \in DOMAIN precs
         THEN [prec |-> Some(precs[Unwrap(astprod.precedence)]),
               panicked |-> FALSE]
         ELSE [prec |-> None, panicked |-> TRUE]
    ELSE [prec |-> None, panicked |-> FALSE]

\* Lines 247-259. The second component: ast.precs[n] panics on a missing key.
ProdPrec(astprod, precs) ==
    IF IsSome(astprod.precedence)
    THEN IF Unwrap(astprod.precedence) \in DOMAIN precs
         THEN [prec |-> Some(precs[Unwrap(astprod.precedence)]), panicked |-> FALSE]
         ELSE [prec |-> None, panicked |-> TRUE]
    ELSE [prec |-> RightmostTerminalPrec(astprod.symbols, precs),
          panicked |-> FALSE]

\* Does indexing nonterm_map / terminal_map with a symbol's name find a key?
Resolves(astsym, nonterm_names, term_names) ==
    IF astsym.tag = "Nonterminal" THEN astsym.name \in Range(nonterm_names)
    ELSE astsym.name \in Range(term_names)

\* StartRule that always refers to the user's start rule, implicit tokens or
\* not.
StartRule_AlwaysUserStart(acc, a, names, rule_idx) ==
    IF a.start \in Range(names.nonterm_names)
    THEN PushProd(acc, rule_idx,
                  <<[tag |-> "Nonterminal",
                     idx |-> MapGet(names.nonterm_names, a.start)]>>, None)
    ELSE [acc EXCEPT !.panicked = TRUE]

\* Lines 182-201: the start rule's sole production.
StartRule(acc, a, names, rule_idx) ==
    LET target == IF IsSome(names.implicit_start_nonterm)
                  THEN Unwrap(names.implicit_start_nonterm)
                  ELSE a.start
    IN  IF target \in Range(names.nonterm_names)
        THEN PushProd(acc, rule_idx,
                      <<Nonterminal(MapGet(names.nonterm_names, target))>>, None)
        ELSE [acc EXCEPT !.panicked = TRUE]

\* ImplicitStartRule with the two symbols swapped.
ImplicitStartRule_Swapped(acc, a, names, rule_idx) ==
    IF a.start \in Range(names.nonterm_names)
    THEN PushProd(acc, rule_idx,
                  <<[tag |-> "Nonterminal",
                     idx |-> MapGet(names.nonterm_names, a.start)],
                    [tag |-> "Nonterminal",
                     idx |-> MapGet(names.nonterm_names,
                                    Unwrap(names.implicit_nonterm))]>>,
                  None)
    ELSE [acc EXCEPT !.panicked = TRUE]

\* Lines 202-211: the implicit-start wrapper's sole production.
ImplicitStartRule(acc, a, names, rule_idx) ==
    IF a.start \in Range(names.nonterm_names)
    THEN PushProd(acc, rule_idx,
                  <<Nonterminal(MapGet(names.nonterm_names,
                                       Unwrap(names.implicit_nonterm))),
                    Nonterminal(MapGet(names.nonterm_names, a.start))>>,
                  None)
    ELSE [acc EXCEPT !.panicked = TRUE]

\* Lines 216-221: one production per implicit token, in the order iterating
\* ast.implicit_tokens yields them.
RECURSIVE ImplicitTokenProds(_, _, _, _)
ImplicitTokenProds(acc, implIter, term_names, rule_idx) ==
    IF implIter = <<>> \/ acc.panicked THEN acc
    ELSE IF implIter[1] \notin Range(term_names)
    THEN [acc EXCEPT !.panicked = TRUE]
    ELSE ImplicitTokenProds(
             PushProd(acc, rule_idx,
                      <<Terminal(MapGet(term_names, implIter[1]))>>, None),
             Tail(implIter), term_names, rule_idx)

\* ImplicitRule with the empty production pushed first, not last.
ImplicitRule_EmptyFirst(acc, implIter, term_names, rule_idx) ==
    ImplicitTokenProds(PushProd(acc, rule_idx, <<>>, None), implIter,
                       term_names, rule_idx)

\* Lines 212-228: the implicit rule, closed by the empty production.
ImplicitRule(acc, implIter, term_names, rule_idx) ==
    LET toks == ImplicitTokenProds(acc, implIter, term_names, rule_idx)
    IN  IF toks.panicked THEN toks ELSE PushProd(toks, rule_idx, <<>>, None)

\* Lines 232-264: the productions of one user rule, in their Vec order.
RECURSIVE UserProds(_, _, _, _, _, _)
UserProds(acc, productions, a, names, term_names, rule_idx) ==
    IF productions = <<>> \/ acc.panicked THEN acc
    ELSE LET astprod == productions[1]
             pp == ProdPrec(astprod, a.precs)
             ok == /\ \A i \in 1..Len(astprod.symbols) :
                          Resolves(astprod.symbols[i], names.nonterm_names,
                                   term_names)
                   /\ ~pp.panicked
         IN  IF ~ok THEN [acc EXCEPT !.panicked = TRUE]
             ELSE UserProds(
                      PushProd(acc, rule_idx,
                               LowerSymbols(astprod.symbols, names.nonterm_names,
                                            term_names, names.implicit_nonterm),
                               pp.prec),
                      Tail(productions), a, names, term_names, rule_idx)

\* Lines 230-264.
UserRule(acc, a, names, term_names, astrulename, rule_idx) ==
    UserProds(acc, a.rules[astrulename].productions, a, names, term_names,
              rule_idx)

\* LowerRules walking nonterm_names from its last name to its first.
RECURSIVE LowerRules_Reversed(_, _, _, _, _, _)
LowerRules_Reversed(acc, i, a, names, term_names, implIter) ==
    IF i > Len(names.nonterm_names) \/ acc.panicked THEN acc
    ELSE LET astrulename ==
                 names.nonterm_names[Len(names.nonterm_names) - i + 1]
             rule_idx == MapGet(names.nonterm_names, astrulename)
             next ==
                 IF astrulename = names.start_nonterm
                 THEN StartRule(acc, a, names, rule_idx)
                 ELSE IF /\ IsSome(names.implicit_start_nonterm)
                         /\ Unwrap(names.implicit_start_nonterm) = astrulename
                 THEN ImplicitStartRule(acc, a, names, rule_idx)
                 ELSE IF /\ IsSome(names.implicit_nonterm)
                         /\ Unwrap(names.implicit_nonterm) = astrulename
                 THEN ImplicitRule(acc, implIter, term_names, rule_idx)
                 ELSE UserRule(acc, a, names, term_names, astrulename, rule_idx)
         IN  LowerRules_Reversed(next, i + 1, a, names, term_names, implIter)

\* Lines 180-265: one pass over nonterm_names from position i on, branching
\* on the role of the name.
RECURSIVE LowerRules(_, _, _, _, _, _)
LowerRules(acc, i, a, names, term_names, implIter) ==
    IF i > Len(names.nonterm_names) \/ acc.panicked THEN acc
    ELSE LET astrulename == names.nonterm_names[i]
             rule_idx == MapGet(names.nonterm_names, astrulename)
             next ==
                 IF astrulename = names.start_nonterm
                 THEN StartRule(acc, a, names, rule_idx)
                 ELSE IF /\ IsSome(names.implicit_start_nonterm)
                         /\ Unwrap(names.implicit_start_nonterm) = astrulename
                 THEN ImplicitStartRule(acc, a, names, rule_idx)
                 ELSE IF /\ IsSome(names.implicit_nonterm)
                         /\ Unwrap(names.implicit_nonterm) = astrulename
                 THEN ImplicitRule(acc, implIter, term_names, rule_idx)
                 ELSE UserRule(acc, a, names, term_names, astrulename, rule_idx)
         IN  LowerRules(next, i + 1, a, names, term_names, implIter)

\* The value a run of new leaves when it panics: there is no grammar.
NoGrammar == [panicked |-> TRUE]

\* Lines 104-282. ruleKeys, tokIter and implIter are the orders in which this
\* run iterates ast.rules.keys(), ast.tokens and ast.implicit_tokens.
New(kind, a, ruleKeys, tokIter, implIter) ==
    LET names == NontermNames(kind, a, ruleKeys)
        terms == TermTables(a, tokIter)
        acc == LowerRules(EmptyTables(Len(names.nonterm_names)), 1, a, names,
                          terms.term_names, implIter)
    IN  IF acc.panicked THEN NoGrammar
        ELSE [panicked |-> FALSE,
              nonterms_len |-> Len(names.nonterm_names),
              nonterminal_names |-> names.nonterm_names,
              terms_len |-> Len(terms.term_names),
              end_term |-> MapGet(terms.term_names, terms.end_term),
              terminal_names |-> terms.term_names,
              terminal_precs |-> terms.term_precs,
              prods_len |-> Len(acc.prods),
              start_prod |->
                  acc.rules_prods[MapGet(names.nonterm_names,
                                         names.start_nonterm) + 1][1],
              rules_prods |-> acc.rules_prods,
              prods_rules |-> acc.prods_rules,
              prods |-> acc.prods,
              prod_precs |-> acc.prod_precs,
              implicit_nonterm |->
                  IF IsSome(names.implicit_nonterm)
                  THEN Some(MapGet(names.nonterm_names,
                                   Unwrap(names.implicit_nonterm)))
                  ELSE None]

----------------------------------------------------------------------------
(* The inputs: grammar kinds and validated ASTs *)

MaxRules == 2

MaxTokens == 2

MaxProds == 2

MaxSyms == 3

YaccKinds == {"Original", "Eco"}

RuleNames ==
    {<<"S">>, <<"s">>, <<"^">>, <<"^", "^">>, <<"~">>, <<"^", "~">>}

TokenNames == {<<"T">>, <<"U">>, <<"$">>}

\* The precedence a %left, %right or %nonassoc declaration gives a token.
DeclaredPrec(n) ==
    CASE n = <<"T">> -> [level |-> 0, kind |-> "Left"]
      [] n = <<"U">> -> [level |-> 1, kind |-> "Right"]
      [] n = <<"$">> -> [level |-> 2, kind |-> "Nonassoc"]

\* Every order in which a hash-based collection of the elements S can be
\* iterated.
IterationOrders(S) ==
    {s \in [1..Cardinality(S) -> S] : Range(s) = S}

SeqsUpTo(S, n) == UNION {[1..k -> S] : k \in 0..n}

\* The upstream validation contract: the start rule is declared, every
\* referenced symbol is declared, and implicit tokens are declared tokens.
\* (Names are unique because rules is a map and tokens is a set.)
Validate(a) ==
    /\ a.start \in DOMAIN a.rules
    /\ \A r \in DOMAIN a.rules :
           \A k \in 1..Len(a.rules[r].productions) :
               LET astprod == a.rules[r].productions[k]
               IN  \A i \in 1..Len(astprod.symbols) :
                       IF astprod.symbols[i].tag = "Nonterminal"
                       THEN astprod.symbols[i].name \in DOMAIN a.rules
                       ELSE astprod.symbols[i].name \in a.tokens
    /\ IsSome(a.implicit_tokens) => Unwrap(a.implicit_tokens) \subseteq a.tokens

GrammarAST(start, rules, tokens, precDom, implicit) ==
    [start |-> start, rules |-> rules, tokens |-> tokens,
     precs |-> [n \in precDom |-> DeclaredPrec(n)],
     implicit_tokens |-> implicit]

\* ASTs that vary the rules: their names, which of them is the start rule,
\* and how many productions each has (a rule's productions alternate between
\* a reference to the start rule and the token T).
RuleShapedASTs ==
    {GrammarAST(start,
                [r \in names |->
                    [productions |->
                        [k \in 1..count[r] |->
                            AstProduction(IF k % 2 = 1
                                          THEN <<AstNonterminal(start)>>
                                          ELSE <<AstTerminal(<<"T">>)>>,
                                          None)]]],
                {<<"T">>}, {}, implicit) :
        <<names, start, count, implicit>> \in
            UNION {UNION {{<<ns, st, c, im>> :
                              c \in [ns -> 0..MaxProds],
                              im \in {None, Some({}), Some({<<"T">>})}} :
                          st \in ns} :
                   ns \in {x \in SUBSET RuleNames :
                              Cardinality(x) \in 1..MaxRules}}}

\* ASTs that vary the tokens: their names, which of them have a declared
\* precedence, and which of them are implicit.
TokenShapedASTs ==
    {GrammarAST(<<"S">>,
                [r \in {<<"S">>} |->
                    [productions |->
                        [k \in 1..Cardinality(tokens) |->
                            AstProduction(
                                <<AstTerminal(
                                      CHOOSE t \in tokens :
                                          Cardinality({u \in tokens :
                                              StrLess(u, t)}) = k - 1)>>,
                                None)]]],
                tokens, precDom, implicit) :
        <<tokens, precDom, implicit>> \in
            UNION {UNION {{<<ts, pd, im>> :
                              im \in {None} \cup {Some(x) : x \in SUBSET ts}} :
                          pd \in SUBSET ts} :
                   ts \in {x \in SUBSET TokenNames :
                              Cardinality(x) <= MaxTokens}}}

\* The symbols a production of the ASTs below is made of.
ProdSymbols ==
    {AstNonterminal(<<"S">>), AstTerminal(<<"T">>), AstTerminal(<<"U">>)}

\* ASTs that vary one production of the start rule: its symbols, its
\* precedence override, which tokens have a declared precedence, and whether
\* there are implicit tokens.
ProdShapedASTs ==
    {GrammarAST(<<"S">>,
                [r \in {<<"S">>} |->
                    [productions |-> <<AstProduction(syms, override)>>]],
                {<<"T">>, <<"U">>}, precDom, implicit) :
        <<syms, override, precDom, implicit>> \in
            SeqsUpTo(ProdSymbols, MaxSyms)
            \X {None, Some(<<"T">>), Some(<<"U">>)}
            \X (SUBSET {<<"T">>, <<"U">>})
            \X {None, Some({<<"U">>})}}

ASTs == {a \in RuleShapedASTs \cup TokenShapedASTs \cup ProdShapedASTs :
            Validate(a)}

----------------------------------------------------------------------------
(* The state machine: a parsed and validated AST, from which the grammar is *)
(* built, and may be built a second time.                                   *)

\* No accessor of the grammar has been called yet.
NoCall == [accessor |-> "none", idx |-> 0, aborted |-> FALSE, value |-> None]

Init ==
    /\ ast \in ASTs
    /\ yacc_kind \in YaccKinds
    /\ pc = "validated"
    /\ grm = NoGrammar
    /\ prev = NoGrammar
    /\ res = NoCall

\* The orders in which one run iterates the AST's three collections.
RunOrders(a) ==
    IterationOrders(DOMAIN a.rules)
    \X IterationOrders(a.tokens)
    \X IterationOrders(IF IsSome(a.implicit_tokens)
                       THEN Unwrap(a.implicit_tokens) ELSE {})

\* YaccGrammar::new(yacc_kind, &ast)
NewGrammar ==
    /\ pc = "validated"
    /\ \E o \in RunOrders(ast) :
           grm' = New(yacc_kind, ast, o[1], o[2], o[3])
    /\ pc' = IF grm'.panicked THEN "panicked" ELSE "built"
    /\ UNCHANGED <<ast, yacc_kind, prev, res>>

\* A second YaccGrammar::new(yacc_kind, &ast) on the same kind and AST; the
\* first grammar is kept for comparison.
Rebuild ==
    /\ pc = "built"
    /\ \E o \in RunOrders(ast) :
           grm' = New(yacc_kind, ast, o[1], o[2], o[3])
    /\ prev' = grm
    /\ pc' = IF grm'.panicked THEN "panicked" ELSE "rebuilt"
    /\ UNCHANGED <<ast, yacc_kind, res>>

Next == NewGrammar \/ Rebuild

Spec == Init /\ [][Next]_vars

----------------------------------------------------------------------------
(* The facade, and what the properties below speak about *)

\* YaccGrammar::nonterminal_off
nonterminal_off(g, n) == Position(g.nonterminal_names, n)

\* YaccGrammar::terminal_off
terminal_off(g, n) == Position(g.terminal_names, n)

\* YaccGrammar::prod_to_nonterm
prod_to_nonterm(g, p) == g.prods_rules[p + 1]

\* YaccGrammar::start_prod
start_prod(g) == g.start_prod

\* YaccGrammar::implicit_nonterm
implicit_nonterm(g) == g.implicit_nonterm

\* YaccGrammar::end_term_idx
end_term_idx(g) == g.end_term

\* A run of new has returned a grammar.
Constructed == pc \in {"built", "rebuilt"}

\* The names of the three synthetic nonterminals of the grammar built from
\* the AST.
StartName == UniqueName(START_NONTERM, DOMAIN ast.rules)

ImplicitName == UniqueName(IMPLICIT_NONTERM, DOMAIN ast.rules)

ImplicitStartName == UniqueName(IMPLICIT_START_NONTERM, DOMAIN ast.rules)

Enabled == ImplicitEnabled(yacc_kind, ast)

\* The production list of the nonterminal called n.
ProdsOf(n) == grm.rules_prods[nonterminal_off(grm, n) + 1]

\* The k-th AST production of user rule r, and the index of the production
\* it was lowered to.
AstProd(r, k) == ast.rules[r].productions[k]

UserProductions ==
    UNION {{<<r, k>> : k \in 1..Len(ast.rules[r].productions)} :
              r \in DOMAIN ast.rules}

ProdIdx(r, k) == ProdsOf(r)[k]

\* The positions of the terminals in a sequence of AST symbols.
TerminalPositions(syms) == {i \in 1..Len(syms) : syms[i].tag = "Terminal"}

Max(S) == CHOOSE x \in S : \A y \in S : y <= x

\* An AST symbol with its name replaced by the name's index.
Resolved(astsym) ==
    IF astsym.tag = "Nonterminal"
    THEN Nonterminal(nonterminal_off(grm, astsym.name))
    ELSE Terminal(terminal_off(grm, astsym.name))

----------------------------------------------------------------------------
(* C1 *)

----------------------------------------------------------------------------
(* C2 *)

\* C2: the forward and backward ownership tables agree: every production p
\* is listed by rules_prods[prods_rules[p]], and every p listed by
\* rules_prods[n] has prods_rules[p] = n.
C2_OwnershipAgrees ==
    Constructed =>
        /\ \A p \in 0..(grm.prods_len - 1) :
               p \in Range(grm.rules_prods[prod_to_nonterm(grm, p) + 1])
        /\ \A n \in 0..(grm.nonterms_len - 1) :
               \A k \in 1..Len(grm.rules_prods[n + 1]) :
                   /\ grm.rules_prods[n + 1][k] \in 0..(grm.prods_len - 1)
                   /\ prod_to_nonterm(grm, grm.rules_prods[n + 1][k]) = n

\* Two user rules with two productions each, behind the synthetic rules.
C2_Witness ==
    /\ Constructed
    /\ Enabled
    /\ Cardinality({n \in 0..(grm.nonterms_len - 1) :
                       Len(grm.rules_prods[n + 1]) >= 2}) >= 3
    /\ prod_to_nonterm(grm, grm.prods_len - 1) = grm.nonterms_len - 1

----------------------------------------------------------------------------
(* C3 *)

\* C3: every nonterminal index of a constructed grammar has a non-empty
\* production-index list.
C3_NoEmptyNonterminal ==
    Constructed =>
        \A n \in 0..(grm.nonterms_len - 1) : grm.rules_prods[n + 1] # <<>>

----------------------------------------------------------------------------
(* C4 *)

\* C4: two runs of new on the same kind and AST assign the same index to
\* every nonterminal name and to every terminal name.
C4_SameIndices ==
    pc = "rebuilt" =>
        /\ \A n \in Range(grm.nonterminal_names) :
               nonterminal_off(prev, n) = nonterminal_off(grm, n)
        /\ \A t \in Range(grm.terminal_names) :
               terminal_off(prev, t) = terminal_off(grm, t)

----------------------------------------------------------------------------
(* C5 *)

\* C5: a user production without a precedence override has the declared
\* precedence of the rightmost terminal of its AST symbols, and none when
\* that terminal has no declared precedence or there is no terminal; this
\* holds with and without implicit tokens.
C5_RightmostTerminal ==
    Constructed =>
        \A rk \in UserProductions :
            LET astprod == AstProd(rk[1], rk[2])
                ts == TerminalPositions(astprod.symbols)
                last == astprod.symbols[Max(ts)].name
            IN  astprod.precedence = None =>
                    grm.prod_precs[ProdIdx(rk[1], rk[2]) + 1] =
                        IF ts # {} /\ last \in DOMAIN ast.precs
                        THEN Some(ast.precs[last]) ELSE None

\* Implicit tokens are enabled, a terminal with a declared precedence stands
\* left of the rightmost terminal, which has none, and the production got no
\* precedence.
C5_Witness ==
    /\ Constructed
    /\ Enabled
    /\ \E rk \in UserProductions :
           LET astprod == AstProd(rk[1], rk[2])
               ts == TerminalPositions(astprod.symbols)
           IN  /\ astprod.precedence = None
               /\ Cardinality(ts) >= 2
               /\ astprod.symbols[Max(ts)].name \notin DOMAIN ast.precs
               /\ \E i \in ts : astprod.symbols[i].name \in DOMAIN ast.precs
               /\ grm.prod_precs[ProdIdx(rk[1], rk[2]) + 1] = None

----------------------------------------------------------------------------
(* C6 *)

\* C6: a user production with a precedence override naming a symbol with a
\* declared precedence has exactly that precedence, whatever its terminals.
C6_Override ==
    Constructed =>
        \A rk \in UserProductions :
            LET astprod == AstProd(rk[1], rk[2])
            IN  (/\ IsSome(astprod.precedence)
                 /\ Unwrap(astprod.precedence) \in DOMAIN ast.precs) =>
                    grm.prod_precs[ProdIdx(rk[1], rk[2]) + 1] =
                        Some(ast.precs[Unwrap(astprod.precedence)])

\* The override names a symbol other than the production's rightmost
\* terminal, which has a different declared precedence.
C6_Witness ==
    /\ Constructed
    /\ \E rk \in UserProductions :
           LET astprod == AstProd(rk[1], rk[2])
               ts == TerminalPositions(astprod.symbols)
               last == astprod.symbols[Max(ts)].name
           IN  /\ IsSome(astprod.precedence)
               /\ ts # {}
               /\ last \in DOMAIN ast.precs
               /\ last # Unwrap(astprod.precedence)
               /\ grm.prod_precs[ProdIdx(rk[1], rk[2]) + 1] =
                      Some(ast.precs[Unwrap(astprod.precedence)])
               /\ grm.prod_precs[ProdIdx(rk[1], rk[2]) + 1] #
                      Some(ast.precs[last])

----------------------------------------------------------------------------
(* C7 *)

\* Where the i-th AST symbol lands when a reference to the implicit
\* nonterminal follows every terminal.
ShiftedPos(syms, i) == i + Cardinality({j \in TerminalPositions(syms) : j < i})

\* C7: lowering keeps the resolved AST symbols in order; with implicit tokens
\* enabled it puts one reference to the implicit nonterminal right behind
\* every terminal and nowhere else, and without them it inserts nothing.
C7_Lowering ==
    Constructed =>
        \A rk \in UserProductions :
            LET syms == AstProd(rk[1], rk[2]).symbols
                prod == grm.prods[ProdIdx(rk[1], rk[2]) + 1]
            IN  IF Enabled
                THEN /\ Len(prod) = Len(syms)
                                    + Cardinality(TerminalPositions(syms))
                     /\ \A i \in 1..Len(syms) :
                            /\ prod[ShiftedPos(syms, i)] = Resolved(syms[i])
                            /\ syms[i].tag = "Terminal" =>
                                   prod[ShiftedPos(syms, i) + 1] =
                                       Nonterminal(nonterminal_off(grm,
                                                                   ImplicitName))
                ELSE prod = [i \in 1..Len(syms) |-> Resolved(syms[i])]

\* Implicit tokens are enabled and a production with a terminal followed by
\* a nonterminal was lowered to three symbols.
C7_Witness ==
    /\ Constructed
    /\ Enabled
    /\ \E rk \in UserProductions :
           LET syms == AstProd(rk[1], rk[2]).symbols
               prod == grm.prods[ProdIdx(rk[1], rk[2]) + 1]
           IN  /\ Len(syms) = 2
               /\ syms[1].tag = "Terminal"
               /\ syms[2].tag = "Nonterminal"
               /\ Len(prod) = 3
               /\ prod[2] = Nonterminal(nonterminal_off(grm, ImplicitName))
               /\ prod[3] = Resolved(syms[2])

----------------------------------------------------------------------------
(* C8 *)

\* C8: with implicit tokens enabled implicit_nonterm() is the implicit
\* nonterminal's index and its production list has one entry per declared
\* implicit token plus one: each implicit token is exactly one
\* single-terminal production and the last entry is the empty production;
\* without implicit tokens implicit_nonterm() is None.
C8_ImplicitRule ==
    Constructed =>
        IF Enabled
        THEN LET list == ProdsOf(ImplicitName)
                 toks == Unwrap(ast.implicit_tokens)
             IN  /\ implicit_nonterm(grm) =
                        Some(nonterminal_off(grm, ImplicitName))
                 /\ Len(list) = Cardinality(toks) + 1
                 /\ \A t \in toks :
                        Cardinality({k \in 1..Len(list) :
                            grm.prods[list[k] + 1] =
                                <<Terminal(terminal_off(grm, t))>>}) = 1
                 /\ grm.prods[list[Len(list)] + 1] = <<>>
        ELSE implicit_nonterm(grm) = None

\* Two implicit tokens: three productions, the empty one last.
C8_Witness ==
    /\ Constructed
    /\ Enabled
    /\ Cardinality(Unwrap(ast.implicit_tokens)) = 2
    /\ Len(ProdsOf(ImplicitName)) = 3
    /\ grm.prods[ProdsOf(ImplicitName)[3] + 1] = <<>>
    /\ grm.prods[ProdsOf(ImplicitName)[1] + 1] # <<>>

----------------------------------------------------------------------------
(* C9 *)

\* C9: with implicit tokens enabled the implicit-start wrapper has exactly
\* one production, [Nonterminal(implicit), Nonterminal(user start)], with no
\* precedence.
C9_ImplicitStartWrapper ==
    (Constructed /\ Enabled) =>
        LET list == ProdsOf(ImplicitStartName)
        IN  /\ Len(list) = 1
            /\ grm.prods[list[1] + 1] =
                   <<Nonterminal(nonterminal_off(grm, ImplicitName)),
                     Nonterminal(nonterminal_off(grm, ast.start))>>
            /\ grm.prod_precs[list[1] + 1] = None

\* The wrapper of a grammar whose user start rule is not the first user rule
\* and whose rule names collide with both implicit markers' first probes.
C9_Witness ==
    /\ Constructed
    /\ Enabled
    /\ ImplicitStartName # IMPLICIT_START_NONTERM
    /\ Len(ProdsOf(ImplicitStartName)) = 1
    /\ grm.prods[ProdsOf(ImplicitStartName)[1] + 1] =
           <<Nonterminal(nonterminal_off(grm, ImplicitName)),
             Nonterminal(nonterminal_off(grm, ast.start))>>
    /\ nonterminal_off(grm, ast.start) # nonterminal_off(grm, ImplicitName)

----------------------------------------------------------------------------
(* C10 *)

\* C10: end_term_idx() is terminal 0, which has no precedence; terms_len is
\* the number of declared tokens plus one; every terminal index i >= 1 has
\* the name of a distinct declared token and exactly the precedence the AST
\* declares for that name, or none.
C10_Terminals ==
    Constructed =>
        /\ end_term_idx(grm) = 0
        /\ grm.terminal_precs[1] = None
        /\ grm.terminal_names[1] \notin ast.tokens
        /\ grm.terms_len = Cardinality(ast.tokens) + 1
        /\ Len(grm.terminal_names) = grm.terms_len
        /\ Len(grm.terminal_precs) = grm.terms_len
        /\ \A i \in 1..(grm.terms_len - 1) :
               /\ grm.terminal_names[i + 1] \in ast.tokens
               /\ \A j \in 1..(grm.terms_len - 1) :
                      grm.terminal_names[j + 1] = grm.terminal_names[i + 1]
                          => j = i
               /\ grm.terminal_precs[i + 1] =
                      IF grm.terminal_names[i + 1] \in DOMAIN ast.precs
                      THEN Some(ast.precs[grm.terminal_names[i + 1]])
                      ELSE None

\* Two tokens, one of them named like the end marker; one has a declared
\* precedence and the other has none.
C10_Witness ==
    /\ Constructed
    /\ END_TERM \in ast.tokens
    /\ grm.terms_len = 3
    /\ grm.terminal_names[1] = END_TERM \o END_TERM
    /\ grm.terminal_precs[2] # None
    /\ grm.terminal_precs[3] = None

----------------------------------------------------------------------------
(* The index-taking accessors, called on a constructed grammar with an      *)
(* index that may be one past the end of the table.                         *)

\* Vec::get(i).map_or(None, |x| Some(x))
VecGet(v, i) == IF i < Len(v) THEN Some(v[i + 1]) ELSE None

\* A call that returned v, and a call that panicked.
Returned(name, i, v) ==
    [accessor |-> name, idx |-> i, aborted |-> FALSE, value |-> v]

Aborted(name, i) ==
    [accessor |-> name, idx |-> i, aborted |-> TRUE, value |-> None]

\* YaccGrammar::nonterm_to_prods
nonterm_to_prods(g, i) == VecGet(g.rules_prods, i)

\* YaccGrammar::nonterm_name
nonterm_name(g, i) == VecGet(g.nonterminal_names, i)

\* YaccGrammar::prod
prod(g, i) == VecGet(g.prods, i)

\* YaccGrammar::prod_precedence
prod_precedence(g, i) == VecGet(g.prod_precs, i)

\* YaccGrammar::term_name
term_name(g, i) == VecGet(g.terminal_names, i)

\* YaccGrammar::term_precedence
term_precedence(g, i) == VecGet(g.terminal_precs, i)

\* The table an accessor reads.
TableOf(g, name) ==
    CASE name = "nonterm_to_prods" -> g.rules_prods
      [] name = "nonterm_name" -> g.nonterminal_names
      [] name = "prod" -> g.prods
      [] name = "prod_to_nonterm" -> g.prods_rules
      [] name = "prod_precedence" -> g.prod_precs
      [] name = "term_name" -> g.terminal_names
      [] name = "term_precedence" -> g.terminal_precs

NontermToProds ==
    /\ pc = "built"
    /\ \E i \in 0..Len(grm.rules_prods) :
           res' = Returned("nonterm_to_prods", i, nonterm_to_prods(grm, i))
    /\ UNCHANGED <<ast, yacc_kind, pc, grm, prev>>

NontermName ==
    /\ pc = "built"
    /\ \E i \in 0..Len(grm.nonterminal_names) :
           res' = Returned("nonterm_name", i, nonterm_name(grm, i))
    /\ UNCHANGED <<ast, yacc_kind, pc, grm, prev>>

Prod ==
    /\ pc = "built"
    /\ \E i \in 0..Len(grm.prods) :
           res' = Returned("prod", i, prod(grm, i))
    /\ UNCHANGED <<ast, yacc_kind, pc, grm, prev>>

\* self.prods_rules[usize::from(i)]: indexing a Vec out of range panics.
ProdToNonterm ==
    /\ pc = "built"
    /\ \E i \in 0..Len(grm.prods_rules) :
           res' = IF i < Len(grm.prods_rules)
                  THEN Returned("prod_to_nonterm", i, prod_to_nonterm(grm, i))
                  ELSE Aborted("prod_to_nonterm", i)
    /\ UNCHANGED <<ast, yacc_kind, pc, grm, prev>>

ProdPrecedence ==
    /\ pc = "built"
    /\ \E i \in 0..Len(grm.prod_precs) :
           res' = Returned("prod_precedence", i, prod_precedence(grm, i))
    /\ UNCHANGED <<ast, yacc_kind, pc, grm, prev>>

TermName ==
    /\ pc = "built"
    /\ \E i \in 0..Len(grm.terminal_names) :
           res' = Returned("term_name", i, term_name(grm, i))
    /\ UNCHANGED <<ast, yacc_kind, pc, grm, prev>>

TermPrecedence ==
    /\ pc = "built"
    /\ \E i \in 0..Len(grm.terminal_precs) :
           res' = Returned("term_precedence", i, term_precedence(grm, i))
    /\ UNCHANGED <<ast, yacc_kind, pc, grm, prev>>

\* The grammars the accessors are called on: those of the ASTs that vary
\* the tokens and their precedences.
InitAccess == Init /\ ast \in TokenShapedASTs

NextAccess ==
    \/ NewGrammar
    \/ NontermToProds
    \/ NontermName
    \/ Prod
    \/ ProdToNonterm
    \/ ProdPrecedence
    \/ TermName
    \/ TermPrecedence

SpecAccess == InitAccess /\ [][NextAccess]_vars

----------------------------------------------------------------------------
(* C11 *)

\* C11: every index-taking accessor called with an out-of-range index
\* returns "not found" (None) and never aborts, and a precedence accessor
\* called with a valid index returns something other than "not found", also
\* when the precedence is absent.
C11_NotFoundNeverAborts ==
    res.accessor # "none" =>
        IF res.idx >= Len(TableOf(grm, res.accessor))
        THEN ~res.aborted /\ res.value = None
        ELSE res.accessor \in {"prod_precedence", "term_precedence"} =>
                 ~res.aborted /\ res.value # None

----------------------------------------------------------------------------
(* C12 *)

\* The marker repeated k times.
RECURSIVE Repeat(_, _)
Repeat(marker, k) == IF k = 0 THEN <<>> ELSE marker \o Repeat(marker, k - 1)

\* name is the marker repeated k times for the least k >= 1 that gives a
\* name not in taken, and k - 1, the number of times the loop lengthened the
\* candidate, is at most the number of taken names.
LeastFree(marker, name, taken) ==
    \E k \in 1..(Cardinality(taken) + 1) :
        /\ name = Repeat(marker, k)
        /\ name \notin taken
        /\ \A j \in 1..(k - 1) : Repeat(marker, j) \in taken

\* The four synthetic names, read back from the constructed grammar.
StartNontermName ==
    grm.nonterminal_names[prod_to_nonterm(grm, start_prod(grm)) + 1]

EndTermName == grm.terminal_names[end_term_idx(grm) + 1]

ImplicitNontermName ==
    grm.nonterminal_names[Unwrap(implicit_nonterm(grm)) + 1]

ImplicitStartNontermName ==
    grm.nonterminal_names[grm.prods[start_prod(grm) + 1][1].idx + 1]

\* C12: each synthetic name of a constructed grammar is its marker repeated
\* k times for the least k >= 1 not among the taken names (the user's rule
\* names, or the tokens for the end terminal), reached after at most as many
\* lengthening steps as there are taken names.
C12_ProbeLeastFree ==
    Constructed =>
        /\ LeastFree(START_NONTERM, StartNontermName, DOMAIN ast.rules)
        /\ LeastFree(END_TERM, EndTermName, ast.tokens)
        /\ Enabled =>
               /\ LeastFree(IMPLICIT_NONTERM, ImplicitNontermName,
                            DOMAIN ast.rules)
               /\ LeastFree(IMPLICIT_START_NONTERM, ImplicitStartNontermName,
                            DOMAIN ast.rules)

\* Both user rules are named like probes of the start marker, so the loop
\* lengthened the start name twice, once per taken name; the wrapper's first
\* probe was free.
C12_Witness ==
    /\ Constructed
    /\ Enabled
    /\ Cardinality(DOMAIN ast.rules) = 2
    /\ StartNontermName = Repeat(START_NONTERM, 3)
    /\ ImplicitStartNontermName = IMPLICIT_START_NONTERM

----------------------------------------------------------------------------
(* C13 *)

\* No element occurs twice in the sequence.
Injective(s) == \A i, j \in 1..Len(s) : s[i] = s[j] => i = j

\* C13: in every constructed grammar the names of each alphabet are pairwise
\* distinct and each name's index leads back to it: the nonterminals are
\* the user's rules and the synthetic names (one, or three with implicit
\* tokens), the terminals are the tokens and the end terminal.
C13_NamesBijective ==
    Constructed =>
        /\ Injective(grm.nonterminal_names)
        /\ Len(grm.nonterminal_names) = grm.nonterms_len
        /\ Range(grm.nonterminal_names) =
               DOMAIN ast.rules \cup {StartNontermName}
               \cup (IF Enabled
                     THEN {ImplicitNontermName, ImplicitStartNontermName}
                     ELSE {})
        /\ grm.nonterms_len =
               Cardinality(DOMAIN ast.rules) + (IF Enabled THEN 3 ELSE 1)
        /\ \A i \in 0..(grm.nonterms_len - 1) :
               nonterminal_off(grm, grm.nonterminal_names[i + 1]) = i
        /\ Injective(grm.terminal_names)
        /\ Range(grm.terminal_names) = ast.tokens \cup {EndTermName}
        /\ grm.terms_len = Cardinality(ast.tokens) + 1
        /\ \A i \in 0..(grm.terms_len - 1) :
               terminal_off(grm, grm.terminal_names[i + 1]) = i

\* The user's two rules are named like the first probes of the implicit
\* nonterminal and of the wrapper; the grammar has five nonterminals.
C13_Witness ==
    /\ Constructed
    /\ Enabled
    /\ DOMAIN ast.rules = {IMPLICIT_NONTERM, IMPLICIT_START_NONTERM}
    /\ grm.nonterms_len = 5
    /\ ImplicitNontermName = IMPLICIT_NONTERM \o IMPLICIT_NONTERM
    /\ ImplicitStartNontermName =
           IMPLICIT_START_NONTERM \o IMPLICIT_START_NONTERM

----------------------------------------------------------------------------
(* C14 *)

\* The production lists of nonterminals 0 .. n - 1, one after the other.
RECURSIVE ListsUpTo(_)
ListsUpTo(n) == IF n = 0 THEN <<>> ELSE ListsUpTo(n - 1) \o grm.rules_prods[n]

\* C14: productions are numbered in nonterminal-index order: prods_rules is
\* non-decreasing, every production list is a run of consecutive indices in
\* the order of the rule's AST productions, the lists of nonterminals 0, 1,
\* ... put together are 0, 1, ..., prods_len - 1, and prods, prod_precs and
\* prods_rules have length prods_len.
C14_NumberedInRuleOrder ==
    Constructed =>
        /\ Len(grm.prods) = grm.prods_len
        /\ Len(grm.prod_precs) = grm.prods_len
        /\ Len(grm.prods_rules) = grm.prods_len
        /\ Len(grm.rules_prods) = grm.nonterms_len
        /\ \A p \in 1..(grm.prods_len - 1) :
               grm.prods_rules[p] <= grm.prods_rules[p + 1]
        /\ \A n \in 1..grm.nonterms_len :
               \A k \in 1..(Len(grm.rules_prods[n]) - 1) :
                   grm.rules_prods[n][k + 1] = grm.rules_prods[n][k] + 1
        /\ ListsUpTo(grm.nonterms_len) = [p \in 1..grm.prods_len |-> p - 1]
        /\ \A r \in DOMAIN ast.rules :
               Len(ProdsOf(r)) = Len(ast.rules[r].productions)
        /\ \A rk \in UserProductions :
               LET syms == AstProd(rk[1], rk[2]).symbols
                   lowered == grm.prods[ProdIdx(rk[1], rk[2]) + 1]
               IN  IF syms = <<>> THEN lowered = <<>>
                   ELSE lowered # <<>> /\ lowered[1] = Resolved(syms[1])

\* Two user rules with two different productions each, numbered behind the
\* start rule's production: the lists are [0], [1, 2], [3, 4].
C14_Witness ==
    /\ Constructed
    /\ ~Enabled
    /\ grm.prods_len = 5
    /\ grm.rules_prods = <<<<0>>, <<1, 2>>, <<3, 4>>>>
    /\ grm.prods_rules = <<0, 1, 1, 2, 2>>
    /\ grm.prods[2] # grm.prods[3]

====
